---- MODULE Spec2Model ----
(***************************************************************************)
(* Model of the document-processor text extraction Lambda                   *)
(* (lambda/document-processor/extract-text/index.py): the token-window      *)
(* chunker chunk_text, the page index build_page_map and the page lookup    *)
(* get_page_number_for_position.                                            *)
(*                                                                          *)
(* One behaviour of Spec is one call of chunk_text: ChunkTextCall runs the   *)
(* code up to the loop, ChunkTextLoop is one iteration of the while loop,   *)
(* and ChunkTextReturn is the return statement.                             *)
(*                                                                          *)
(* One behaviour of LookupSpec is one call of get_page_number_for_position  *)
(* on an arbitrary page map.                                                *)
(*                                                                          *)
(* TwiceSpec is Spec with a second chunk_text call on the same arguments,   *)
(* FaultSpec is Spec with a tokenizer that raises at one of its calls, and  *)
(* one behaviour of HandlerSpec is one call of handler on an S3 event:      *)
(* HandlerRecord is one iteration of its for loop, HandlerReturn the return.*)
(***************************************************************************)
EXTENDS Integers, Sequences, FiniteSets, TLC

VARIABLES
    pc,           \* position in chunk_text: "call", "loop", "return", "done", "raised"
    pages_data,   \* argument: the pages, each [pageNumber, text]
    text,         \* argument: the full text (a sequence of characters)
    document_id,  \* argument
    metadata,     \* argument: a record, possibly with keys missing
    chunk_size,   \* argument
    overlap,      \* argument
    page_map,     \* local: build_page_map(pages_data)
    tokens,       \* local: encoding.encode(text)
    total_tokens, \* local: len(tokens)
    chunks,       \* local: the list being built
    chunk_index,  \* local
    start_pos,    \* local
    result,       \* the returned list (empty until pc = "done")
    error,        \* the exception chunk_text raised (NoError until pc = "raised")
    tokenizer_fault, \* environment: the tokenizer call that raises, if any
    encode_calls, \* calls of encoding.encode made so far
    decode_calls, \* calls of encoding.decode made so far
    call_no,      \* caller: 1 for the first call, 2 for a repeated call
    first_result, \* caller: the list the first call returned
    \* handler(event, context)
    handler_pc,      \* "idle", "loop" (between two records), "done" (returned), "raised"
    event_records,   \* event['Records']
    env,             \* FAILED_PROCESSING_SNS_TOPIC, EMBEDDING_GENERATOR_LAMBDA and
                     \* the AWS calls that fail (failing)
    record_index,    \* number of records the for loop has visited
    processed_count,
    failed_count,
    calls,           \* the calls made to S3, DynamoDB, SNS and Lambda, in order
    response,        \* the value handler returns
    \* extract_text_from_pdf(pdf_bytes)
    pdf_pc,          \* "idle", "loop" (between two pages), "done" (returned), "raised"
    pdf_pages,       \* pdf.pages as pdfplumber presents them
    pdf_page_num,    \* number of pages the for loop has visited
    pdf_pages_data,  \* the list being built, returned at the end
    \* configure_role_mapping(endpoint, master_user, master_password, lambda_role_arn)
    role_pc,         \* "idle", "get" (before the GET), "put" (before the PUT), "done"
    role_server,     \* the all_access mapping the server holds: a set of at most one
    role_before,     \* the mapping the server held when the call began
    role_current,    \* local current_mapping
    role_payload,    \* local payload, as last sent in a PUT
    role_return,     \* the value returned ("none" until role_pc = "done")
    role_run,        \* 1 for the first run of the script, 2 for the second
    role_first,      \* what the first run sent and returned
    lookup_pc,      \* get_page_number_for_position: "idle", "call", "done"
    lookup_map,     \* argument page_map of the lookup
    lookup_pos,     \* argument char_pos of the lookup
    lookup_result   \* the page number it returned (0 until lookup_pc = "done")

\* chunk_text's arguments, locals and result
chunk_vars == <<pc, pages_data, text, document_id, metadata, chunk_size, overlap,
                page_map, tokens, total_tokens, chunks, chunk_index, start_pos, result,
                error, tokenizer_fault, encode_calls, decode_calls>>

\* the caller of chunk_text
caller_vars == <<call_no, first_result>>

\* the page lookup's arguments and result
lookup_vars == <<lookup_pc, lookup_map, lookup_pos, lookup_result>>

\* handler's event, environment, locals, collaborator calls and return value
handler_vars == <<handler_pc, event_records, env, record_index, processed_count,
                  failed_count, calls, response>>

\* extract_text_from_pdf's input, loop position and list
pdf_vars == <<pdf_pc, pdf_pages, pdf_page_num, pdf_pages_data>>

\* configure_role_mapping's server, locals and return value
role_vars == <<role_pc, role_server, role_before, role_current, role_payload,
               role_return, role_run, role_first>>

\* what a step of chunk_text leaves alone
chunk_frame == <<lookup_vars, caller_vars, handler_vars, pdf_vars, role_vars, tokenizer_fault>>

\* what a step of get_page_number_for_position leaves alone
lookup_frame == <<chunk_vars, caller_vars, handler_vars, pdf_vars, role_vars>>

\* what a step of handler leaves alone
handler_frame == <<chunk_vars, caller_vars, lookup_vars, pdf_vars, role_vars>>

\* what a step of extract_text_from_pdf leaves alone
pdf_frame == <<chunk_vars, caller_vars, lookup_vars, handler_vars, role_vars>>

\* what a step of configure_role_mapping leaves alone
role_frame == <<chunk_vars, caller_vars, lookup_vars, handler_vars, pdf_vars>>

vars == <<chunk_vars, caller_vars, lookup_vars, handler_vars, pdf_vars, role_vars>>

(***************************************************************************)
(* Bounds of the model.                                                     *)
(***************************************************************************)
MaxPages == 2        \* pages per document
MaxPageLen == 3      \* characters per page
MaxChunkSize == 3    \* largest chunk_size (and overlap) of the small calls
ScenarioExtra == 3   \* the long-text calls have 51 .. 50 + ScenarioExtra tokens

\* Iterations of the while loop the model follows. No call with
\* 0 <= overlap < chunk_size needs more than one iteration per token, so the
\* budget only cuts off the calls whose loop does not end.
MaxTokens == MaxPages * MaxPageLen + (MaxPages - 1)
MaxIterations == MaxTokens + ScenarioExtra + 2

MaxSpans == 2        \* spans of a page map handed to the lookup directly
MaxSpanPos == 2      \* largest character position of such a span

Min(a, b) == IF a < b THEN a ELSE b
Max(a, b) == IF a > b THEN a ELSE b

(***************************************************************************)
(* Python list slicing seq[lo:hi] (0-based, half-open): a negative index    *)
(* counts from the end, and indices are clamped to the list.                *)
(***************************************************************************)
PyIndex(i, n) == IF i < 0 THEN Max(i + n, 0) ELSE Min(i, n)

PySlice(seq, lo, hi) ==
    LET n == Len(seq)
        l == PyIndex(lo, n)
        h == PyIndex(hi, n)
    IN  IF l >= h THEN <<>> ELSE SubSeq(seq, l + 1, h)

(***************************************************************************)
(* The tokenizer (tiktoken cl100k_base in the code).  It is a library: the  *)
(* model keeps what the chunker relies on, a byte-pair style vocabulary in  *)
(* which some tokens stand for more than one character, a greedy            *)
(* longest-match encode, and a decode that concatenates the tokens' texts.  *)
(***************************************************************************)
Vocab == <<  <<"a">>, <<"b">>, <<"a", "b">>, <<"\n">>, <<"\n", "\n">>  >>

StartsWith(s, p) == Len(s) >= Len(p) /\ SubSeq(s, 1, Len(p)) = p

\* The token at position i of s: the longest vocabulary entry that matches there.
TokenAt(s, i) ==
    LET fits == {t \in 1..Len(Vocab) : StartsWith(SubSeq(s, i, Len(s)), Vocab[t])}
    IN  CHOOSE t \in fits : \A u \in fits : Len(Vocab[u]) <= Len(Vocab[t])

encode(s) ==
    LET enc[i \in 1..(Len(s) + 1)] ==
            IF i > Len(s) THEN <<>>
            ELSE <<TokenAt(s, i)>> \o enc[i + Len(Vocab[TokenAt(s, i)])]
    IN  enc[1]

RECURSIVE decode(_)
decode(toks) ==
    IF toks = <<>> THEN <<>>
    ELSE Vocab[Head(toks)] \o decode(Tail(toks))

(***************************************************************************)
(* extract_text: full_text = '\n\n'.join(page['text'] for page in pages)    *)
(***************************************************************************)
Separator == <<"\n", "\n">>

RECURSIVE JoinPages(_)
JoinPages(pages) ==
    IF pages = <<>> THEN <<>>
    ELSE IF Len(pages) = 1 THEN pages[1].text
    ELSE pages[1].text \o Separator \o JoinPages(Tail(pages))

(***************************************************************************)
(* build_page_map: character spans of the pages in the joined text.         *)
(***************************************************************************)
SeparatorLen == 2

RECURSIVE build_page_map_from(_, _)
build_page_map_from(pages, current_pos) ==
    IF pages = <<>> THEN <<>>
    ELSE LET page_text == Head(pages).text
             page_number == Head(pages).pageNumber
             pos == IF current_pos > 0 THEN current_pos + SeparatorLen ELSE current_pos
             span == [start_pos |-> pos,
                      end_pos |-> pos + Len(page_text),
                      page_number |-> page_number]
         IN  <<span>> \o build_page_map_from(Tail(pages), span.end_pos)

build_page_map(pages) == build_page_map_from(pages, 0)

(***************************************************************************)
(* get_page_number_for_position: first span containing char_pos, else the   *)
(* last span's page, else 1.                                                *)
(***************************************************************************)
\* Mutant: the span's end is taken as inclusive.
get_page_number_for_position_InclusiveEnd(char_pos, pmap) ==
    LET hits == {i \in 1..Len(pmap) :
                    pmap[i].start_pos <= char_pos /\ char_pos <= pmap[i].end_pos}
    IN  IF hits # {} THEN pmap[CHOOSE i \in hits : \A j \in hits : i <= j].page_number
        ELSE IF pmap # <<>> THEN pmap[Len(pmap)].page_number
        ELSE 1

\* Mutant: the scan keeps the last matching span instead of returning at the first.
get_page_number_for_position_LastMatch(char_pos, pmap) ==
    LET hits == {i \in 1..Len(pmap) :
                    pmap[i].start_pos <= char_pos /\ char_pos < pmap[i].end_pos}
    IN  IF hits # {} THEN pmap[CHOOSE i \in hits : \A j \in hits : i >= j].page_number
        ELSE IF pmap # <<>> THEN pmap[Len(pmap)].page_number
        ELSE 1

\* Mutant: a position past every span gets the default page 1.
get_page_number_for_position_DefaultFirst(char_pos, pmap) ==
    LET hits == {i \in 1..Len(pmap) :
                    pmap[i].start_pos <= char_pos /\ char_pos < pmap[i].end_pos}
    IN  IF hits # {} THEN pmap[CHOOSE i \in hits : \A j \in hits : i <= j].page_number
        ELSE 1

get_page_number_for_position(char_pos, pmap) ==
    LET hits == {i \in 1..Len(pmap) :
                    pmap[i].start_pos <= char_pos /\ char_pos < pmap[i].end_pos}
    IN  IF hits # {} THEN pmap[CHOOSE i \in hits : \A j \in hits : i <= j].page_number
        ELSE IF pmap # <<>> THEN pmap[Len(pmap)].page_number
        ELSE 1

(***************************************************************************)
(* chunk_text                                                               *)
(***************************************************************************)
\* metadata.get(key, default)
Get(m, key, default) == IF key \in DOMAIN m THEN m[key] ELSE default

\* Mutant: the index is left out of the id.
ChunkId_NoIndex(doc, index) == doc \o "#chunk#"

\* f"{document_id}#chunk#{chunk_index}"
ChunkId(doc, index) == doc \o "#chunk#" \o ToString(index)

\* Mutant: the window is one token too long.
EndPos_OneTooLong(start, size, total) == Min(start + size + 1, total)

\* end_pos = min(start_pos + chunk_size, total_tokens)
EndPos(start, size, total) == Min(start + size, total)

\* Mutant: the overlap is added to the step instead of subtracted.
NextStart_PlusOverlap(start, size, ovl) == start + size + ovl

\* Mutant: the overlap is ignored, windows are laid end to end.
NextStart_NoOverlap(start, size, ovl) == start + size

\* Mutant: the step is one token too short, so it is 0 when overlap = chunk_size - 1.
NextStart_ShortStep(start, size, ovl) == start + size - ovl - 1

\* start_pos = start_pos + chunk_size - overlap
NextStart(start, size, ovl) == start + size - ovl

\* Mutant: the loop body also runs when start_pos = total_tokens.
WhileCond_Inclusive(start, total) == start <= total

\* while start_pos < total_tokens
WhileCond(start, total) == start < total

\* Mutant: the index is not advanced.
NextIndex_Stuck(index) == index

\* chunk_index += 1
NextIndex(index) == index + 1

\* Mutant: uploadedBy is hard-coded instead of copied from the argument.
ChunkMetadata_HardCoded(meta) ==
    [filename |-> Get(meta, "filename", "unknown.pdf"),
     uploadedBy |-> "system",
     uploadedAt |-> Get(meta, "uploadedAt", 0),
     pageCount |-> Get(meta, "pageCount", 0)]

\* the 'metadata' entry of a chunk: a new dict of four fields of the argument
ChunkMetadata(meta) ==
    [filename |-> Get(meta, "filename", "unknown.pdf"),
     uploadedBy |-> Get(meta, "uploadedBy", "system"),
     uploadedAt |-> Get(meta, "uploadedAt", 0),
     pageCount |-> Get(meta, "pageCount", 0)]

\* the chunk object of one iteration
Chunk(doc, meta, toks, pmap, index, start, end) ==
    LET chunk_tokens == PySlice(toks, start, end)
        char_pos == Len(decode(PySlice(toks, 0, start)))
    IN  [chunkId |-> ChunkId(doc, index),
         documentId |-> doc,
         text |-> decode(chunk_tokens),
         chunkIndex |-> index,
         pageNumber |-> get_page_number_for_position(char_pos, pmap),
         tokenCount |-> Len(chunk_tokens),
         startToken |-> start,
         endToken |-> end,
         metadata |-> ChunkMetadata(meta)]

\* The tokenizer call that raises: none, get_encoding, encode, or the n-th decode.
\* A fault names the call (op, and for decode its number n) and the exception the
\* tokenizer raises there.
NoError == "none"
NoFault == [op |-> "none", n |-> 0, error |-> NoError]

\* The two decode calls of an iteration (lines 357 and 361), numbered from 1.
DecodeCallsOfIteration(done) == {done + 1, done + 2}

\* Lines 328-347: load the encoding, build the page map, encode the text.
ChunkTextCall ==
    /\ pc = "call"
    /\ tokenizer_fault.op \notin {"get_encoding", "encode"}
    /\ encode_calls' = encode_calls + 1
    /\ UNCHANGED <<decode_calls, error>>
    /\ page_map' = build_page_map(pages_data)
    /\ tokens' = encode(text)
    /\ total_tokens' = Len(encode(text))
    /\ chunks' = <<>>
    /\ chunk_index' = 0
    /\ start_pos' = 0
    /\ pc' = "loop"
    /\ UNCHANGED <<pages_data, text, document_id, metadata, chunk_size, overlap, result>>
    /\ UNCHANGED chunk_frame

\* Lines 349-396: one iteration of the while loop.
ChunkTextLoop ==
    /\ pc = "loop"
    /\ WhileCond(start_pos, total_tokens)
    /\ Len(chunks) < MaxIterations
    /\ ~(tokenizer_fault.op = "decode"
           /\ tokenizer_fault.n \in DecodeCallsOfIteration(decode_calls))
    /\ decode_calls' = decode_calls + 2
    /\ UNCHANGED <<encode_calls, error>>
    /\ LET end_pos == EndPos(start_pos, chunk_size, total_tokens)
       IN  /\ chunks' = Append(chunks, Chunk(document_id, metadata, tokens, page_map,
                                             chunk_index, start_pos, end_pos))
           /\ chunk_index' = NextIndex(chunk_index)
           /\ IF end_pos >= total_tokens
              THEN pc' = "return" /\ start_pos' = start_pos
              ELSE pc' = "loop" /\ start_pos' = NextStart(start_pos, chunk_size, overlap)
    /\ UNCHANGED <<pages_data, text, document_id, metadata, chunk_size, overlap,
                   page_map, tokens, total_tokens, result>>
    /\ UNCHANGED chunk_frame

\* Line 349: the while condition is false.
ChunkTextLoopExit ==
    /\ pc = "loop"
    /\ ~WhileCond(start_pos, total_tokens)
    /\ pc' = "return"
    /\ UNCHANGED <<encode_calls, decode_calls, error>>
    /\ UNCHANGED <<pages_data, text, document_id, metadata, chunk_size, overlap,
                   page_map, tokens, total_tokens, chunks, chunk_index, start_pos, result>>
    /\ UNCHANGED chunk_frame

\* Lines 398-400: return chunks.
ChunkTextReturn ==
    /\ pc = "return"
    /\ result' = chunks
    /\ pc' = "done"
    /\ UNCHANGED <<encode_calls, decode_calls, error>>
    /\ UNCHANGED <<pages_data, text, document_id, metadata, chunk_size, overlap,
                   page_map, tokens, total_tokens, chunks, chunk_index, start_pos>>
    /\ UNCHANGED chunk_frame

\* Lines 330-340 when the tokenizer raises: get_encoding's error is logged and
\* re-raised, encode's error is not caught at all.
ChunkTextCallRaises ==
    /\ pc = "call"
    /\ tokenizer_fault.op \in {"get_encoding", "encode"}
    /\ encode_calls' = (IF tokenizer_fault.op = "encode" THEN encode_calls + 1 ELSE encode_calls)
    /\ error' = tokenizer_fault.error
    /\ pc' = "raised"
    /\ UNCHANGED <<pages_data, text, document_id, metadata, chunk_size, overlap,
                   page_map, tokens, total_tokens, chunks, chunk_index, start_pos, result,
                   decode_calls>>
    /\ UNCHANGED chunk_frame

\* Mutant: a failing decode ends the loop and the chunks built so far are returned.
ChunkTextLoopRaises_ReturnsPartial ==
    /\ pc = "loop"
    /\ WhileCond(start_pos, total_tokens)
    /\ Len(chunks) < MaxIterations
    /\ tokenizer_fault.op = "decode"
    /\ tokenizer_fault.n \in DecodeCallsOfIteration(decode_calls)
    /\ decode_calls' = tokenizer_fault.n
    /\ pc' = "return"
    /\ UNCHANGED <<pages_data, text, document_id, metadata, chunk_size, overlap,
                   page_map, tokens, total_tokens, chunks, chunk_index, start_pos, result,
                   encode_calls, error>>
    /\ UNCHANGED chunk_frame

\* Lines 357 and 361 when decode raises: nothing catches it, the call ends with
\* the error and the local list is dropped.
ChunkTextLoopRaises ==
    /\ pc = "loop"
    /\ WhileCond(start_pos, total_tokens)
    /\ Len(chunks) < MaxIterations
    /\ tokenizer_fault.op = "decode"
    /\ tokenizer_fault.n \in DecodeCallsOfIteration(decode_calls)
    /\ decode_calls' = tokenizer_fault.n
    /\ error' = tokenizer_fault.error
    /\ pc' = "raised"
    /\ UNCHANGED <<pages_data, text, document_id, metadata, chunk_size, overlap,
                   page_map, tokens, total_tokens, chunks, chunk_index, start_pos, result,
                   encode_calls>>
    /\ UNCHANGED chunk_frame

\* Mutant: the list of the previous call is kept (a list shared between calls).
ChunkTextCallAgain_SharedList ==
    /\ pc = "done"
    /\ call_no = 1
    /\ call_no' = 2
    /\ first_result' = result
    /\ pc' = "loop"
    /\ start_pos' = 0
    /\ UNCHANGED <<pages_data, text, document_id, metadata, chunk_size, overlap,
                   page_map, tokens, total_tokens, chunks, chunk_index, result,
                   error, tokenizer_fault, encode_calls, decode_calls, lookup_vars,
                   handler_vars, pdf_vars, role_vars>>

\* The caller keeps the returned list and calls chunk_text again with the same
\* arguments (test_chunk_with_different_overlap_sizes calls chunk_text three
\* times in one process).  The new call starts at the top of the function.
ChunkTextCallAgain ==
    /\ pc = "done"
    /\ call_no = 1
    /\ call_no' = 2
    /\ first_result' = result
    /\ pc' = "call"
    /\ UNCHANGED <<pages_data, text, document_id, metadata, chunk_size, overlap,
                   page_map, tokens, total_tokens, chunks, chunk_index, start_pos, result,
                   error, tokenizer_fault, encode_calls, decode_calls, lookup_vars,
                   handler_vars, pdf_vars, role_vars>>

(***************************************************************************)
(* The calls the model explores.                                            *)
(***************************************************************************)
\* A page text of n characters: "b", "ba", "bab", ... ("ab" is one token).
PageText(n) == [i \in 1..n |-> IF i % 2 = 1 THEN "b" ELSE "a"]

\* A text of n characters that encodes to n tokens.
LongText(n) == [i \in 1..n |-> "b"]

\* The pages extract_text_from_pdf returns: pageNumber is the 1-based position.
PagesOf(lens) == [i \in 1..Len(lens) |-> [pageNumber |-> i, text |-> PageText(lens[i])]]

PageLists ==
    {PagesOf(lens) : lens \in UNION {[1..n -> 0..MaxPageLen] : n \in 0..MaxPages}}

Documents ==
    { [id |-> "doc-1",
       metadata |-> [filename |-> "test.pdf", uploadedBy |-> "test-user",
                     uploadedAt |-> 1234567890, pageCount |-> 2]],
      [id |-> "doc-2", metadata |-> [filename |-> "other.pdf"]] }

\* chunk_size and overlap of the small calls; the pairs with overlap >= chunk_size
\* or chunk_size <= 0 are the invalid configurations.
Configs == {[chunk_size |-> s, overlap |-> o] : s \in (0 - 1)..MaxChunkSize, o \in 0..MaxChunkSize}

\* chunk_size = 50, overlap = 49 on texts of just over 50 tokens.
Scenario == [chunk_size |-> 50, overlap |-> 49]
ScenarioPages ==
    {<<[pageNumber |-> 1, text |-> LongText(Scenario.chunk_size + k)]>> : k \in 1..ScenarioExtra}

\* No page lookup is under way.
LookupIdle ==
    /\ lookup_pc = "idle"
    /\ lookup_map = <<>>
    /\ lookup_pos = 0
    /\ lookup_result = 0

\* configure_role_mapping is not running.
RoleIdle ==
    /\ role_pc = "idle"
    /\ role_server = {}
    /\ role_before = {}
    /\ role_current = {}
    /\ role_payload = {}
    /\ role_return = "none"
    /\ role_run = 1
    /\ role_first = {}

\* extract_text_from_pdf is not running.
PdfIdle ==
    /\ pdf_pc = "idle"
    /\ pdf_pages = <<>>
    /\ pdf_page_num = 0
    /\ pdf_pages_data = <<>>

\* handler is not running, nor extract_text_from_pdf under it.
HandlerIdle ==
    /\ PdfIdle
    /\ handler_pc = "idle"
    /\ event_records = <<>>
    /\ env = [sns_topic |-> "", embedding_lambda |-> "", failing |-> {}]
    /\ record_index = 0
    /\ processed_count = 0
    /\ failed_count = 0
    /\ calls = <<>>
    /\ response = [statusCode |-> 0, body |-> ""]

\* The arguments of the call.
ChunkTextArgs ==
    /\ \E doc \in Documents : document_id = doc.id /\ metadata = doc.metadata
    /\ \/ \E cfg \in Configs :
            /\ chunk_size = cfg.chunk_size /\ overlap = cfg.overlap
            /\ pages_data \in PageLists
       \/ /\ chunk_size = Scenario.chunk_size /\ overlap = Scenario.overlap
          /\ pages_data \in ScenarioPages
    /\ text = JoinPages(pages_data)

Init ==
    /\ LookupIdle
    /\ HandlerIdle
    /\ RoleIdle
    /\ ChunkTextArgs
    /\ tokenizer_fault = NoFault
    /\ call_no = 1
    /\ first_result = <<>>
    /\ pc = "call"
    /\ error = NoError
    /\ encode_calls = 0
    /\ decode_calls = 0
    /\ page_map = <<>>
    /\ tokens = <<>>
    /\ total_tokens = 0
    /\ chunks = <<>>
    /\ chunk_index = 0
    /\ start_pos = 0
    /\ result = <<>>

Next ==
    \/ ChunkTextCall
    \/ ChunkTextLoop
    \/ ChunkTextLoopExit
    \/ ChunkTextReturn

Spec == Init /\ [][Next]_vars

\* The loop runs to completion: the interpreter executes the next statement.
FairSpec == Spec /\ WF_vars(Next)

(***************************************************************************)
(* The page lookup on its own: get_page_number_for_position is called with  *)
(* any page map (the tests hand it maps they wrote themselves), so the      *)
(* spans may overlap, be empty or be out of order.                          *)
(***************************************************************************)
\* chunk_text is not running.
ChunkIdle ==
    /\ pc = "idle"
    /\ error = NoError /\ tokenizer_fault = NoFault
    /\ encode_calls = 0 /\ decode_calls = 0
    /\ call_no = 1 /\ first_result = <<>>
    /\ pages_data = <<>> /\ text = <<>>
    /\ document_id = "" /\ metadata = <<>>
    /\ chunk_size = 512 /\ overlap = 50
    /\ page_map = <<>> /\ tokens = <<>> /\ total_tokens = 0
    /\ chunks = <<>> /\ chunk_index = 0 /\ start_pos = 0
    /\ result = <<>>

PageNumbers == {2, 3}

SpanSet == [start_pos : 0..MaxSpanPos, end_pos : 0..MaxSpanPos, page_number : PageNumbers]

PageMaps == UNION {[1..n -> SpanSet] : n \in 0..MaxSpans}

LookupInit ==
    /\ ChunkIdle
    /\ HandlerIdle
    /\ RoleIdle
    /\ lookup_pc = "call"
    /\ lookup_map \in PageMaps
    /\ lookup_pos \in 0..(MaxSpanPos + 1)
    /\ lookup_result = 0

\* Lines 449-457: the whole function.
LookupCall ==
    /\ lookup_pc = "call"
    /\ lookup_result' = get_page_number_for_position(lookup_pos, lookup_map)
    /\ lookup_pc' = "done"
    /\ UNCHANGED <<lookup_map, lookup_pos>>
    /\ UNCHANGED lookup_frame

LookupNext == LookupCall

LookupSpec == LookupInit /\ [][LookupNext]_vars

(***************************************************************************)
(* Properties of chunk_text.                                                *)
(***************************************************************************)
\* The precondition of the window generator.
ValidConfiguration == chunk_size >= 1 /\ 0 <= overlap /\ overlap < chunk_size

\* The configurations the specification calls invalid.
InvalidConfiguration == overlap >= chunk_size \/ chunk_size <= 0

\* chunk_text has returned its list.
Returned == pc = "done"

\* The number of tokens of the text, counted from the argument.
TotalTokens == Len(encode(text))

Step == chunk_size - overlap

CeilDiv(a, b) == (a + b - 1) \div b

\* C1 (coverage): for totalTokens >= 1 and a valid configuration the returned
\* chunks' [startToken, endToken) ranges cover [0, totalTokens) without gaps: the
\* first starts at 0, the last ends at totalTokens, and each chunk starts at or
\* before the end of the previous one.
C1_Coverage ==
    (Returned /\ ValidConfiguration /\ TotalTokens >= 1) =>
        /\ Len(result) >= 1
        /\ result[1].startToken = 0
        /\ result[Len(result)].endToken = TotalTokens
        /\ \A i \in 1..(Len(result) - 1) : result[i + 1].startToken <= result[i].endToken

\* A call that returned three or more chunks with overlap 0 (the chunks just touch).
C1_Witness ==
    Returned /\ ValidConfiguration /\ TotalTokens >= 1 /\ Len(result) >= 3 /\ overlap = 0

\* C2 (bounded size): every returned chunk has tokenCount <= chunkSize, with
\* equality for every chunk except possibly the last.
C2_BoundedSize ==
    (Returned /\ ValidConfiguration) =>
        \A i \in 1..Len(result) :
            /\ result[i].tokenCount <= chunk_size
            /\ (i < Len(result) => result[i].tokenCount = chunk_size)

\* A call whose last chunk is shorter than the ones before it.
C2_Witness ==
    /\ Returned /\ ValidConfiguration /\ Len(result) >= 2
    /\ result[Len(result)].tokenCount < chunk_size

\* C3 (overlap law): when totalTokens > chunkSize, consecutive chunks i, i+1 have
\* startToken(i+1) = startToken(i) + chunkSize - overlap, and
\* endToken(i) - startToken(i+1) is overlap for every pair but the final one, where
\* it is at most overlap.
C3_OverlapLaw ==
    (Returned /\ ValidConfiguration /\ TotalTokens > chunk_size) =>
        \A i \in 1..(Len(result) - 1) :
            /\ result[i + 1].startToken = result[i].startToken + chunk_size - overlap
            /\ IF i + 1 < Len(result)
               THEN result[i].endToken - result[i + 1].startToken = overlap
               ELSE result[i].endToken - result[i + 1].startToken <= overlap

\* A call with a positive overlap that returned three or more chunks.
C3_Witness ==
    /\ Returned /\ ValidConfiguration /\ TotalTokens > chunk_size
    /\ overlap >= 1 /\ Len(result) >= 3

\* C4 (termination): for every totalTokens >= 0 and every valid configuration
\* the windowing loop ends and chunk_text returns, however small the step
\* chunkSize - overlap is.
C4_Termination == ValidConfiguration => <>(pc = "done")

\* A call with step 1 that went round the loop three or more times and returned.
C4_Witness ==
    Returned /\ ValidConfiguration /\ Step = 1 /\ chunk_size >= 2 /\ Len(result) >= 3

\* C5 as stated (window count): for every totalTokens and valid configuration the
\* number of chunks is 1 if totalTokens <= chunkSize, and otherwise
\* ceil((totalTokens - chunkSize) / (chunkSize - overlap)) + 1.
C5_WindowCount_AsStated ==
    (Returned /\ ValidConfiguration) =>
        Len(result) = IF TotalTokens <= chunk_size
                      THEN 1
                      ELSE CeilDiv(TotalTokens - chunk_size, Step) + 1

\* C5 amended (window count): the number of chunks is 0 if totalTokens = 0, 1 if
\* 1 <= totalTokens <= chunkSize, and otherwise
\* ceil((totalTokens - chunkSize) / (chunkSize - overlap)) + 1; with chunkSize = 50,
\* overlap = 49 and totalTokens > 50 it is totalTokens - 50 + 1.
C5_WindowCount ==
    (Returned /\ ValidConfiguration) =>
        /\ Len(result) = IF TotalTokens = 0 THEN 0
                         ELSE IF TotalTokens <= chunk_size THEN 1
                         ELSE CeilDiv(TotalTokens - chunk_size, Step) + 1
        /\ (chunk_size = 50 /\ overlap = 49 /\ TotalTokens > 50) =>
                Len(result) = TotalTokens - 50 + 1

\* A call where the division does not come out even, so the rounding up counts.
C5_Witness ==
    /\ Returned /\ ValidConfiguration /\ TotalTokens > chunk_size
    /\ (TotalTokens - chunk_size) % Step # 0
    /\ Len(result) >= 3

\* C6 (invalid configuration is rejected): whenever overlap >= chunkSize or
\* chunkSize <= 0, chunk_text fails with an InvalidConfiguration error: it builds
\* no chunk and does not return a list.
C6_InvalidConfigurationRejected ==
    InvalidConfiguration => (chunks = <<>> /\ ~Returned)

\* C7 (empty input is not an error): when the text encodes to zero tokens,
\* chunk_text builds no chunk and returns the empty list, for every chunkSize and
\* overlap.
C7_EmptyInput ==
    (TotalTokens = 0) =>
        /\ chunks = <<>>
        /\ pc = "done" => result = <<>>
        /\ pc = "loop" => ENABLED ChunkTextLoopExit

\* A call on a document of empty pages, with an invalid configuration, that returned.
C7_Witness ==
    /\ Returned /\ TotalTokens = 0 /\ result = <<>>
    /\ pages_data # <<>> /\ InvalidConfiguration

\* C8 (index integrity): the chunk at position i (0-based) of the returned list
\* has chunkIndex = i.
C8_IndexIntegrity ==
    Returned => \A i \in 1..Len(result) : result[i].chunkIndex = i - 1

\* A returned list of three or more chunks.
C8_Witness == Returned /\ Len(result) >= 3

\* C9 (chunk identity): every chunk's chunkId is documentId + "#chunk#" +
\* chunkIndex, its documentId is the document_id argument, and the chunkIds of one
\* call are pairwise distinct.
C9_ChunkIdentity ==
    Returned =>
        /\ \A i \in 1..Len(result) :
              /\ result[i].chunkId = document_id \o "#chunk#" \o ToString(result[i].chunkIndex)
              /\ result[i].documentId = document_id
        /\ \A i, j \in 1..Len(result) : i # j => result[i].chunkId # result[j].chunkId

\* A returned list of two or more chunks, whose second id ends in 1.
C9_Witness ==
    /\ Returned /\ Len(result) >= 2
    /\ result[2].chunkId = document_id \o "#chunk#1"

\* C10 (page span separator): build_page_map returns one span per page, in page
\* order, each as wide as the page text, the first starting at 0, and
\* end_pos(i) + 2 = start_pos(i+1) for every non-final page i.
C10_PageSpanSeparator ==
    (pc # "call") =>
        /\ Len(page_map) = Len(pages_data)
        /\ \A i \in 1..Len(page_map) :
              /\ page_map[i].page_number = pages_data[i].pageNumber
              /\ page_map[i].end_pos - page_map[i].start_pos = Len(pages_data[i].text)
        /\ page_map # <<>> => page_map[1].start_pos = 0
        /\ \A i \in 1..(Len(page_map) - 1) :
              page_map[i].end_pos + 2 = page_map[i + 1].start_pos

(***************************************************************************)
(* Properties of the page index and the page lookup.                        *)
(***************************************************************************)
\* Span i of pmap contains the position (half-open).
Contains(pmap, i, pos) == pmap[i].start_pos <= pos /\ pos < pmap[i].end_pos

\* Character positions the properties look up in a built page map: every
\* position of the joined text and a few past its end.
MaxOffset == MaxPages * (MaxPageLen + SeparatorLen) + 1

\* build_page_map has run on pages_data.
PageMapBuilt == pc \in {"loop", "return", "done"}

\* C11 (page index matches the joined text): for a non-empty page list the
\* end_pos of the last span equals the length of the page texts joined with the
\* two-character separator.
C11_LastSpanEndsAtTextLength ==
    (PageMapBuilt /\ pages_data # <<>>) =>
        page_map[Len(page_map)].end_pos = Len(JoinPages(pages_data))

\* C12 (page lookup): the lookup returns the page number of the first span, in
\* index order, with start_pos <= offset < end_pos; if no span contains the
\* offset it returns the last span's page number, and 1 if the index is empty.
C12_PageLookup ==
    (lookup_pc = "done") =>
        LET n == Len(lookup_map)
            containing == {i \in 1..n : Contains(lookup_map, i, lookup_pos)}
        IN  /\ \A i \in containing :
                  (\A j \in 1..(i - 1) : j \notin containing) =>
                      lookup_result = lookup_map[i].page_number
            /\ (containing = {} /\ n > 0) => lookup_result = lookup_map[n].page_number
            /\ n = 0 => lookup_result = 1

\* A lookup whose position lies in two spans with different page numbers.
C12_Witness ==
    /\ lookup_pc = "done"
    /\ Len(lookup_map) = 2
    /\ Contains(lookup_map, 1, lookup_pos) /\ Contains(lookup_map, 2, lookup_pos)
    /\ lookup_map[1].page_number # lookup_map[2].page_number

\* C13 (page fidelity): for a two-page document with page numbers 1 and 2 and
\* text lengths L1 >= 1, L2 >= 1, looking up in the built page map gives page 1
\* for offsets 0 and L1-1, and page 2 for offsets L1+2 and L1+2+L2+100.
C13_PageFidelity ==
    (/\ PageMapBuilt
     /\ Len(pages_data) = 2
     /\ pages_data[1].pageNumber = 1 /\ pages_data[2].pageNumber = 2
     /\ Len(pages_data[1].text) >= 1 /\ Len(pages_data[2].text) >= 1) =>
        LET L1 == Len(pages_data[1].text)
            L2 == Len(pages_data[2].text)
        IN  /\ get_page_number_for_position(0, page_map) = 1
            /\ get_page_number_for_position(L1 - 1, page_map) = 1
            /\ get_page_number_for_position(L1 + 2, page_map) = 2
            /\ get_page_number_for_position(L1 + 2 + L2 + 100, page_map) = 2

\* A two-page document with pages of different, non-zero lengths.
C13_Witness ==
    /\ PageMapBuilt /\ Len(pages_data) = 2
    /\ Len(pages_data[1].text) >= 2 /\ Len(pages_data[2].text) = 1

\* The pages of pages_data whose text is empty.
EmptyPages == {i \in 1..Len(pages_data) : pages_data[i].text = <<>>}

\* C14 as stated (empty pages are unreachable by lookup): an empty page has a
\* zero-width span, and for every offset >= 0 the lookup in the built page map is
\* never the page number of a page whose text is empty.
C14_EmptyPagesUnreachable_AsStated ==
    PageMapBuilt =>
        /\ \A i \in EmptyPages : page_map[i].start_pos = page_map[i].end_pos
        /\ \A off \in 0..MaxOffset : \A i \in EmptyPages :
              get_page_number_for_position(off, page_map) # pages_data[i].pageNumber

\* C14 amended: an empty page has a zero-width span, which contains no offset;
\* the lookup returns the page number of an empty page only through the fallback,
\* that is only when the empty page is the last page and no span contains the
\* offset.
C14_EmptyPagesUnreachable ==
    PageMapBuilt =>
        /\ \A i \in EmptyPages : page_map[i].start_pos = page_map[i].end_pos
        /\ \A off \in 0..MaxOffset : \A i \in EmptyPages :
              get_page_number_for_position(off, page_map) = pages_data[i].pageNumber =>
                  /\ i = Len(pages_data)
                  /\ \A j \in 1..Len(page_map) : ~Contains(page_map, j, off)

\* A document whose first page is empty and whose last page is not.
C14_Witness ==
    /\ PageMapBuilt /\ Len(pages_data) = 2
    /\ pages_data[1].text = <<>> /\ pages_data[2].text # <<>>

(***************************************************************************)
(* Further properties of chunk_text.                                        *)
(***************************************************************************)
MetadataKeys == {"filename", "uploadedBy", "uploadedAt", "pageCount"}

\* C15 (metadata snapshot): every returned chunk carries a metadata record whose
\* filename, uploadedBy, uploadedAt and pageCount equal those of the metadata
\* argument, the same values in every chunk, and no step of chunk_text changes
\* the metadata argument.
C15_MetadataSnapshot ==
    /\ [](Returned =>
            \A i \in 1..Len(result) :
                /\ DOMAIN result[i].metadata = MetadataKeys
                /\ \A k \in MetadataKeys \cap DOMAIN metadata :
                      result[i].metadata[k] = metadata[k]
                /\ result[i].metadata = result[1].metadata)
    /\ [][metadata' = metadata]_vars

\* A call with a complete metadata argument that returned two or more chunks.
C15_Witness ==
    /\ Returned /\ Len(result) >= 2
    /\ MetadataKeys \subseteq DOMAIN metadata
    /\ metadata.uploadedBy # "system"

(***************************************************************************)
(* Two chunk_text calls in a row with the same arguments.                   *)
(***************************************************************************)
TwiceNext ==
    \/ Next
    \/ ChunkTextCallAgain

TwiceSpec == Init /\ [][TwiceNext]_vars

\* C16 (determinism): a second chunk_text call with the same text, pages,
\* document id, metadata, chunk size and overlap returns a list equal to the one
\* the first call returned: the same length and every field of every chunk
\* equal; nothing of the first call is left in the second call's result.
C16_Determinism ==
    (call_no = 2 /\ Returned) => result = first_result

\* The second call returned, with two or more chunks.
C16_Witness ==
    /\ call_no = 2 /\ Returned
    /\ Len(result) >= 2

(***************************************************************************)
(* chunk_text with a tokenizer that raises at one of its calls.             *)
(***************************************************************************)
MaxFaultCall == 4

TokenizerErrors == {"TokenizerFailure", "ValueError"}

Faults ==
    {[op |-> o, n |-> 0, error |-> err] : o \in {"get_encoding", "encode"}, err \in TokenizerErrors}
    \cup {[op |-> "decode", n |-> k, error |-> err] : k \in 1..MaxFaultCall, err \in TokenizerErrors}

FaultInit ==
    /\ LookupIdle
    /\ HandlerIdle
    /\ RoleIdle
    /\ ChunkTextArgs
    /\ tokenizer_fault \in Faults
    /\ call_no = 1
    /\ first_result = <<>>
    /\ pc = "call"
    /\ error = NoError
    /\ encode_calls = 0
    /\ decode_calls = 0
    /\ page_map = <<>>
    /\ tokens = <<>>
    /\ total_tokens = 0
    /\ chunks = <<>>
    /\ chunk_index = 0
    /\ start_pos = 0
    /\ result = <<>>

FaultNext ==
    \/ Next
    \/ ChunkTextCallRaises
    \/ ChunkTextLoopRaises

FaultSpec == FaultInit /\ [][FaultNext]_vars

\* The call ended with the tokenizer's exception and returned nothing.
FailedWith(err) ==
    /\ pc = "raised"
    /\ error = err
    /\ result = <<>>

\* C17 (atomic failure): once the failing encode call or the failing decode call
\* has been made, chunk_text has ended with the exception the tokenizer raised,
\* no list has been returned (whatever chunks were already built), and the
\* failing call has been made once only: no tokenizer call follows it.
C17_AtomicFailure ==
    /\ (tokenizer_fault.op = "encode" /\ encode_calls >= 1) =>
            /\ FailedWith(tokenizer_fault.error)
            /\ encode_calls = 1 /\ decode_calls = 0
    /\ (tokenizer_fault.op = "decode" /\ decode_calls >= tokenizer_fault.n) =>
            /\ FailedWith(tokenizer_fault.error)
            /\ encode_calls = 1 /\ decode_calls = tokenizer_fault.n

\* A decode call raised after one or more chunks had been built.
C17_Witness ==
    /\ pc = "raised"
    /\ tokenizer_fault.op = "decode"
    /\ Len(chunks) >= 1

(***************************************************************************)
(* handler: one S3 event, a list of records, each naming an object.         *)
(*                                                                          *)
(* A key is the sequence of its pieces, "/" being a piece of its own:       *)
(* 'uploads/doc-1/a.pdf' is <<"uploads", "/", "doc-1", "/", "a.pdf">>.      *)
(***************************************************************************)
MaxRecords == 2

\* chunk_size and overlap that extract_text passes to chunk_text.
DefaultChunkSize == 512
DefaultOverlap == 50

\* Python's None for bucket and document_id; a key that is None is <<>>.
None == "<None>"

\* Truth value of a string or None.
Truthy(x) == x # None /\ x # ""

\* urllib.parse.unquote_plus on one piece: '+' is a space, '%2B' is a plus sign.
UnquoteAtom(a) ==
    CASE a = "+" -> " "
      [] a = "%2B" -> "+"
      [] OTHER -> a

unquote_plus(key) == [i \in 1..Len(key) |-> UnquoteAtom(key[i])]

\* key.startswith('uploads/')
StartsWithUploads(key) == Len(key) >= 2 /\ key[1] = "uploads" /\ key[2] = "/"

\* key.split('/') from piece i on, cur being the part read since the last '/'.
RECURSIVE split_from(_, _, _)
split_from(key, i, cur) ==
    IF i > Len(key) THEN <<cur>>
    ELSE IF key[i] = "/" THEN <<cur>> \o split_from(key, i + 1, "")
    ELSE split_from(key, i + 1, cur \o key[i])

split(key) == split_from(key, 1, "")

\* key_parts[1] if len(key_parts) > 1 else 'unknown'
DocumentIdOf(key) == IF Len(split(key)) > 1 THEN split(key)[2] ELSE "unknown"

\* s3_key.split('/')[-1] if s3_key else 'unknown.pdf'
FilenameOf(key) == IF key # <<>> THEN split(key)[Len(split(key))] ELSE "unknown.pdf"

\* f"{folder}/{document_id}/{name}"
Path(folder, doc, name) == <<folder, "/", doc, "/", name>>

\* One call to a collaborator, made while the handler is at record rec.
Call(op, rec, bucket, key, doc, status, chunk_count, page_count, err) ==
    [op |-> op, rec |-> rec, bucket |-> bucket, key |-> key, document_id |-> doc,
     status |-> status, chunk_count |-> chunk_count, page_count |-> page_count,
     error |-> err, raised |-> FALSE]

\* The call is made; it raises when the environment makes this AWS call fail.
Attempt(call, name) == IF name \in env.failing THEN [call EXCEPT !.raised = TRUE] ELSE call

\* Lines 564-592: one update_item; chunkCount and pageCount are written only
\* with 'completed', errorMessage only with 'failed'.  It never raises: an
\* error of update_item is logged (lines 596-598).
update_document_status(rec, doc, status, bucket, key, chunk_count, page_count, error_message) ==
    <<Attempt(Call("update_document_status", rec, bucket, key, doc, status,
                   IF status = "completed" THEN chunk_count ELSE 0,
                   IF status = "completed" THEN page_count ELSE 0,
                   IF status = "failed" THEN error_message ELSE NoError),
              "update_item")>>

\* len(chunks) of the chunk_text loop (lines 349-396) started at token start.
RECURSIVE chunk_count_from(_, _, _, _)
chunk_count_from(start, total, size, ov) ==
    IF ~WhileCond(start, total) THEN 0
    ELSE IF EndPos(start, size, total) >= total THEN 1
    ELSE 1 + chunk_count_from(NextStart(start, size, ov), total, size, ov)

\* Mutant: an error of the invocation is raised to the caller.
EmbeddingError_Propagated(invoked) ==
    IF \E j \in 1..Len(invoked) : invoked[j].raised THEN "ClientError" ELSE NoError

\* Lines 771-775: an error of lambda_client.invoke is logged, not raised.
EmbeddingError(invoked) == NoError

\* Lines 731-775: nothing is invoked without a configured function.
invoke_embedding_generator(rec, bucket, doc, chunks_key) ==
    IF env.embedding_lambda = "" THEN <<>>
    ELSE <<Attempt(Call("invoke", rec, bucket, chunks_key, doc, "", 0, 0, NoError), "invoke")>>

\* Mutant: an error of put_object is swallowed.
StoreError_Swallowed(put) == NoError

\* Lines 477-482, 515-520, 530-535: put_object is called outside any try block,
\* so its error leaves store_extracted_text or store_chunks, and extract_text.
StoreError(put) == IF put.raised THEN "ClientError" ELSE NoError

\* Lines 129-194.  The object is a PDF with its pages, a file pdfplumber cannot
\* open, or missing from the bucket.  The value has the calls made, the exception
\* raised (NoError when the function returns) and the returned dict.
extract_text(rec, bucket, key, object) ==
    LET doc == DocumentIdOf(key)
        get == Call("get_object", rec, bucket, key, doc, "", 0, 0, NoError)
        put(name) == Attempt(Call("put_object", rec, bucket, Path("processed", doc, name),
                                  doc, "", 0, 0, NoError), name)
        full_text == JoinPages(object.pages)
        chunking == Call("chunk_text", rec, bucket, key, doc, "", 0, 0, NoError)
        chunk_count == chunk_count_from(0, Len(encode(full_text)), DefaultChunkSize, DefaultOverlap)
        chunks_key == Path("processed", doc, "chunks.json")
        invoked == invoke_embedding_generator(rec, bucket, doc, chunks_key)
        raises(cs, err) == [calls |-> cs, error |-> err, result |-> <<>>]
    IN  IF object.kind = "missing" THEN raises(<<get>>, "NoSuchKey")
        ELSE IF object.kind = "corrupt" THEN raises(<<get>>, "PDFSyntaxError")
        ELSE IF StoreError(put("text.json")) # NoError
        THEN raises(<<get, put("text.json")>>, StoreError(put("text.json")))
        ELSE IF StoreError(put("pages.json")) # NoError
        THEN raises(<<get, put("text.json"), put("pages.json")>>, StoreError(put("pages.json")))
        ELSE IF StoreError(put("chunks.json")) # NoError
        THEN raises(<<get, put("text.json"), put("pages.json"), chunking, put("chunks.json")>>,
                    StoreError(put("chunks.json")))
        ELSE [calls |-> <<get, put("text.json"), put("pages.json"), chunking, put("chunks.json")>>
                        \o invoked,
              error |-> EmbeddingError(invoked),
              result |-> [text |-> full_text, pageCount |-> Len(object.pages),
                          chunkCount |-> chunk_count]]

\* Mutant: a failed copy ends the failure handling.
StepsAfterCopy_StopOnError(copy, rest) == IF copy.raised THEN <<>> ELSE rest

\* Lines 632-646: the copy has its own try/except; its error is logged and the
\* steps after it follow in any case.
StepsAfterCopy(copy, rest) == rest

\* Lines 601-714: copy to failed/, error.json, status 'failed', SNS when a topic
\* is configured.  The copy, the put and the publish each have their own
\* try/except, update_document_status never raises, and the whole body is in a
\* try/except that logs: the function never raises.
handle_processing_failure(rec, bucket, key, doc, err) ==
    LET entry == Call("handle_processing_failure", rec, bucket, key, doc, "", 0, 0, err)
        copy == Attempt(Call("copy_object", rec, bucket, Path("failed", doc, FilenameOf(key)),
                             doc, "", 0, 0, NoError), "copy_object")
        put == Attempt(Call("put_object", rec, bucket, Path("failed", doc, "error.json"),
                            doc, "", 0, 0, err), "error.json")
        status == update_document_status(rec, doc, "failed", bucket, key, 0, 0, err)
        publish == IF env.sns_topic = "" THEN <<>>
                   ELSE <<Attempt(Call("publish", rec, bucket,
                                       Path("failed", doc, FilenameOf(key)), doc, "", 0, 0, err),
                                  "publish")>>
    IN  [calls |-> <<entry, copy>> \o StepsAfterCopy(copy, <<put>> \o status \o publish),
         error |-> NoError]

\* Line 112: if bucket and key and document_id
FailureHandled(bucket, key, doc) == Truthy(bucket) /\ key # <<>> /\ Truthy(doc)

\* Mutant: 'failed' is written as well as 'completed'.
CompletedStatus_ThenFailed(rec, doc, bucket, key, res) ==
    update_document_status(rec, doc, "completed", bucket, key,
                           Get(res, "chunkCount", 0), Get(res, "pageCount", 0), NoError)
    \o update_document_status(rec, doc, "failed", bucket, key, 0, 0, "KeyError")

\* Mutant: the two counts are passed in each other's place.
CompletedStatus_CountsSwapped(rec, doc, bucket, key, res) ==
    update_document_status(rec, doc, "completed", bucket, key,
                           Get(res, "pageCount", 0), Get(res, "chunkCount", 0), NoError)

\* Lines 94-101: the 'completed' update made from extract_text's result.
CompletedStatus(rec, doc, bucket, key, res) ==
    update_document_status(rec, doc, "completed", bucket, key,
                           Get(res, "chunkCount", 0), Get(res, "pageCount", 0), NoError)

\* Mutant: a skipped record gets a status update.
SkipRecord_UpdatesStatus(rec, bucket, key) ==
    [calls |-> update_document_status(rec, DocumentIdOf(key), "processing", bucket, key,
                                      0, 0, NoError),
     outcome |-> "skipped"]

\* Lines 76-78: the key is logged and the loop continues with the next record.
SkipRecord(rec, bucket, key) == [calls |-> <<>>, outcome |-> "skipped"]

\* Lines 67-118: the body of the for loop for one record.  The value has the
\* calls made and how the iteration ended: "processed", "failed" or "skipped"
\* ("raised" would be an exception leaving the loop body: the except block
\* catches every Exception of the try block and of handle_processing_failure).
ProcessRecord(rec, record) ==
    IF record.malformed
    THEN \* record['s3'] raises KeyError with bucket, key and document_id None
         [calls |-> <<>>, outcome |-> "failed"]
    ELSE
    LET bucket == record.bucket
        key == unquote_plus(record.key)
    IN  IF ~StartsWithUploads(key)
        THEN SkipRecord(rec, bucket, key)
        ELSE
        LET doc == DocumentIdOf(key)
            processing == update_document_status(rec, doc, "processing", bucket, key, 0, 0, NoError)
            ex == extract_text(rec, bucket, key, record.object)
            called == <<Call("extract_text", rec, bucket, key, doc, "", 0, 0, ex.error)>>
        IN  IF ex.error = NoError
            THEN [calls |-> processing \o called \o ex.calls
                            \o CompletedStatus(rec, doc, bucket, key, ex.result),
                  outcome |-> "processed"]
            ELSE [calls |-> processing \o called \o ex.calls
                            \o (IF FailureHandled(bucket, key, doc)
                                THEN handle_processing_failure(rec, bucket, key, doc, ex.error).calls
                                ELSE <<>>),
                  outcome |-> "failed"]

\* Mutant: a skipped record is counted as failed.
FailedAfter_CountsSkipped(count, outcome) ==
    IF outcome \in {"failed", "skipped"} THEN count + 1 ELSE count

\* Line 109: failed_count += 1 in the except block.
FailedAfter(count, outcome) == IF outcome = "failed" THEN count + 1 ELSE count

\* Line 104: processed_count += 1 at the end of the try block.
ProcessedAfter(count, outcome) == IF outcome = "processed" THEN count + 1 ELSE count

\* json.dumps({'processed': processed_count, 'failed': failed_count})
JsonBody(processed, failed) ==
    "{\"processed\": " \o ToString(processed) \o ", \"failed\": " \o ToString(failed) \o "}"

\* Lines 66-118: one iteration of the for loop.
HandlerRecord ==
    /\ handler_pc = "loop"
    /\ record_index < Len(event_records)
    /\ LET rec == record_index + 1
           done == ProcessRecord(rec, event_records[rec])
       IN  /\ record_index' = rec
           /\ calls' = calls \o done.calls
           /\ processed_count' = ProcessedAfter(processed_count, done.outcome)
           /\ failed_count' = FailedAfter(failed_count, done.outcome)
           /\ handler_pc' = (IF done.outcome = "raised" THEN "raised" ELSE "loop")
    /\ UNCHANGED <<event_records, env, response>>
    /\ UNCHANGED handler_frame

\* Lines 120-126: the loop is over, the response is returned.
HandlerReturn ==
    /\ handler_pc = "loop"
    /\ record_index = Len(event_records)
    /\ response' = [statusCode |-> 200, body |-> JsonBody(processed_count, failed_count)]
    /\ handler_pc' = "done"
    /\ UNCHANGED <<event_records, env, record_index, processed_count, failed_count, calls>>
    /\ UNCHANGED handler_frame

\* The objects a record can name.
Objects ==
    { [kind |-> "pdf", pages |-> PagesOf(<<0>>)],
      [kind |-> "pdf", pages |-> PagesOf(<<2, 1>>)],
      [kind |-> "corrupt", pages |-> <<>>],
      [kind |-> "missing", pages |-> <<>>] }

\* The keys as S3 puts them in the event (URL-encoded: a space is '+').
RecordKeys ==
    { <<"uploads", "/", "doc-1", "/", "a.pdf">>,
      <<"uploads", "/", "doc-2", "/", "my", "+", "file.pdf">>,
      <<"uploads", "/", "/", "x.pdf">>,
      <<"processed", "/", "doc-1", "/", "text.json">> }

\* A record without the 's3' field.
MalformedRecord ==
    [malformed |-> TRUE, bucket |-> None, key |-> <<>>,
     object |-> [kind |-> "missing", pages |-> <<>>]]

Records ==
    {[malformed |-> FALSE, bucket |-> "docs", key |-> k, object |-> o] :
        k \in RecordKeys, o \in Objects}
    \cup {MalformedRecord}

Environments ==
    {[sns_topic |-> t, embedding_lambda |-> f, failing |-> {}] :
        t \in {"", "arn:aws:sns:failed-processing"}, f \in {"", "embedding-generator"}}

HandlerInit ==
    /\ ChunkIdle
    /\ LookupIdle
    /\ PdfIdle
    /\ RoleIdle
    /\ handler_pc = "loop"
    /\ event_records \in UNION {[1..n -> Records] : n \in 0..MaxRecords}
    /\ env \in Environments
    /\ record_index = 0
    /\ processed_count = 0
    /\ failed_count = 0
    /\ calls = <<>>
    /\ response = [statusCode |-> 0, body |-> ""]

HandlerNext ==
    \/ HandlerRecord
    \/ HandlerReturn

HandlerSpec == HandlerInit /\ [][HandlerNext]_vars

(***************************************************************************)
(* Properties of handler.                                                   *)
(***************************************************************************)
HandlerReturned == handler_pc = "done"

\* What a record is, read from the event alone.
UnderUploads(record) == ~record.malformed /\ StartsWithUploads(unquote_plus(record.key))
RecordSkipped(record) == ~record.malformed /\ ~StartsWithUploads(unquote_plus(record.key))
RecordRaises(record) == record.malformed \/ (UnderUploads(record) /\ record.object.kind # "pdf")
RecordSucceeds(record) == UnderUploads(record) /\ record.object.kind = "pdf"

SkippedRecords == {i \in 1..Len(event_records) : RecordSkipped(event_records[i])}
RaisingRecords == {i \in 1..Len(event_records) : RecordRaises(event_records[i])}
SucceedingRecords == {i \in 1..Len(event_records) : RecordSucceeds(event_records[i])}

\* The calls made while the handler was at record i, in order.
CallsOf(i) == SelectSeq(calls, LAMBDA c : c.rec = i)

\* C18 (batch progress): handler never ends with an exception, and between two
\* records the loop goes on to the next record or, after the last, to the return
\* statement, whatever the earlier records did; the calls are made in
\* record order and every record under uploads/ that the loop has passed has its
\* calls; and the returned response has statusCode 200, processed = number of
\* records processed without an exception, failed = number of records whose
\* processing raised, which with the skipped records add up to the number of
\* records.
C18_BatchProgress ==
    /\ handler_pc \in {"loop", "done"}
    /\ handler_pc = "loop" => record_index <= Len(event_records)
    /\ \A j \in 1..Len(calls) :
          /\ calls[j].rec \in 1..record_index
          /\ j > 1 => calls[j - 1].rec <= calls[j].rec
    /\ \A i \in 1..record_index : UnderUploads(event_records[i]) => CallsOf(i) # <<>>
    /\ HandlerReturned =>
          /\ record_index = Len(event_records)
          /\ response.statusCode = 200
          /\ response.body = JsonBody(Cardinality(SucceedingRecords), Cardinality(RaisingRecords))
          /\ processed_count = Cardinality(SucceedingRecords)
          /\ failed_count = Cardinality(RaisingRecords)
          /\ processed_count + failed_count + Cardinality(SkippedRecords) = Len(event_records)

\* The handler returned from an event of two records: the first raised, the
\* second was processed.
C18_Witness ==
    /\ HandlerReturned
    /\ Len(event_records) = 2
    /\ 1 \in RaisingRecords
    /\ 2 \in SucceedingRecords
    /\ response.body = JsonBody(1, 1)

\* The handle_processing_failure calls made for record i.
FailureCallsOf(i) == SelectSeq(CallsOf(i), LAMBDA c : c.op = "handle_processing_failure")

\* extract_text was called for record i and raised.
ExtractTextRaised(i) ==
    \E j \in 1..Len(calls) :
        calls[j].rec = i /\ calls[j].op = "extract_text" /\ calls[j].error # NoError

\* C19 (failure routing): for every record under uploads/ whose processing
\* raised, by the time the loop has passed the record, handle_processing_failure
\* has been called exactly once for it, with the record's bucket, its key and
\* the document id taken from the key.
C19_FailureRouting ==
    \A i \in 1..record_index :
        (UnderUploads(event_records[i]) /\ ExtractTextRaised(i)) =>
            /\ Len(FailureCallsOf(i)) = 1
            /\ FailureCallsOf(i)[1].bucket = event_records[i].bucket
            /\ FailureCallsOf(i)[1].key = unquote_plus(event_records[i].key)
            /\ FailureCallsOf(i)[1].document_id = DocumentIdOf(unquote_plus(event_records[i].key))

\* The status updates made for record i.
StatusCallsOf(i) == SelectSeq(CallsOf(i), LAMBDA c : c.op = "update_document_status")

\* extract_text was called for record i and returned.
ExtractTextReturned(i) ==
    \E j \in 1..Len(calls) :
        calls[j].rec = i /\ calls[j].op = "extract_text" /\ calls[j].error = NoError

\* What extract_text returns for record i.
ResultOf(i) ==
    extract_text(i, event_records[i].bucket, unquote_plus(event_records[i].key),
                 event_records[i].object).result

\* C20 (status sequence on success): for every record under uploads/ whose
\* extract_text returned, by the time the loop has passed the record exactly two
\* status updates have been made for its document: 'processing', made before
\* extract_text is called, and then 'completed', made after it, carrying the
\* chunkCount and the pageCount of extract_text's result; and the records so
\* processed are the ones processed_count counts.
C20_StatusSequenceOnSuccess ==
    /\ \A i \in 1..record_index :
          (UnderUploads(event_records[i]) /\ ExtractTextReturned(i)) =>
              LET all == CallsOf(i)
                  st == StatusCallsOf(i)
              IN  /\ Len(st) = 2
                  /\ st[1].status = "processing" /\ st[2].status = "completed"
                  /\ \A k \in 1..2 :
                        st[k].document_id = DocumentIdOf(unquote_plus(event_records[i].key))
                  /\ all[1] = st[1]
                  /\ all[2].op = "extract_text"
                  /\ all[Len(all)] = st[2]
                  /\ st[2].chunk_count = ResultOf(i).chunkCount
                  /\ st[2].page_count = ResultOf(i).pageCount
    /\ processed_count =
          Cardinality({i \in 1..record_index :
                          UnderUploads(event_records[i]) /\ ExtractTextReturned(i)})

\* A processed record whose document has two pages and one chunk, after a
\* record that failed.
C20_Witness ==
    /\ record_index = 2
    /\ ExtractTextRaised(1)
    /\ UnderUploads(event_records[2]) /\ ExtractTextReturned(2)
    /\ ResultOf(2).pageCount = 2 /\ ResultOf(2).chunkCount = 1
    /\ processed_count = 1

\* C21 (non-upload records are skipped): a step of the loop over a record whose
\* decoded key does not start with 'uploads/' makes no call at all (no
\* extract_text, no update_document_status, no handle_processing_failure) and
\* leaves processed_count and failed_count as they were; so no call is ever
\* attributed to such a record.
C21_NonUploadSkipped ==
    /\ [][(record_index' = record_index + 1
            /\ RecordSkipped(event_records[record_index + 1])) =>
              /\ calls' = calls
              /\ processed_count' = processed_count
              /\ failed_count' = failed_count]_vars
    /\ [](\A i \in 1..record_index : RecordSkipped(event_records[i]) => CallsOf(i) = <<>>)

\* The loop has passed a skipped record that came after a processed one.
C21_Witness ==
    /\ record_index = 2
    /\ 1 \in SucceedingRecords
    /\ 2 \in SkippedRecords
    /\ processed_count = 1 /\ failed_count = 0

(***************************************************************************)
(* handle_processing_failure called on its own, with AWS calls that fail.   *)
(* The arguments are those handler passes for the one record of the event:  *)
(* its bucket, its decoded key, the document id of the key and the error    *)
(* extract_text raised.                                                     *)
(***************************************************************************)
\* The AWS calls of handle_processing_failure that can fail.
FailureHandlingCalls == {"copy_object", "error.json", "update_item", "publish"}

\* The records whose processing raises.
FailedUploads == {r \in Records : ~r.malformed /\ StartsWithUploads(unquote_plus(r.key))
                                   /\ r.object.kind # "pdf"}

FailureArgs ==
    LET record == event_records[1]
        key == unquote_plus(record.key)
    IN  [bucket |-> record.bucket, key |-> key, document_id |-> DocumentIdOf(key),
         error |-> extract_text(1, record.bucket, key, record.object).error]

FailureInit ==
    /\ ChunkIdle
    /\ LookupIdle
    /\ PdfIdle
    /\ RoleIdle
    /\ handler_pc = "failure_call"
    /\ event_records \in [1..1 -> FailedUploads]
    /\ env \in {[sns_topic |-> t, embedding_lambda |-> "", failing |-> f] :
                   t \in {"", "arn:aws:sns:failed-processing"},
                   f \in SUBSET FailureHandlingCalls}
    /\ record_index = 0
    /\ processed_count = 0
    /\ failed_count = 0
    /\ calls = <<>>
    /\ response = [statusCode |-> 0, body |-> ""]

\* Lines 601-714: the whole function.
HandleFailureCall ==
    /\ handler_pc = "failure_call"
    /\ LET a == FailureArgs
           done == handle_processing_failure(1, a.bucket, a.key, a.document_id, a.error)
       IN  /\ calls' = done.calls
           /\ handler_pc' = (IF done.error = NoError THEN "failure_done" ELSE "failure_raised")
    /\ UNCHANGED <<event_records, env, record_index, processed_count, failed_count, response>>
    /\ UNCHANGED handler_frame

FailureNext == HandleFailureCall

FailureSpec == FailureInit /\ [][FailureNext]_vars

\* The calls of one operation, in order.
CallsTo(op) == SelectSeq(calls, LAMBDA c : c.op = op)

\* C22 (failure handling is step-independent): handle_processing_failure never
\* raises, and when it has returned it has attempted, whichever of its AWS calls
\* failed, one copy to failed/{documentId}/{filename}, one put of
\* failed/{documentId}/error.json, one status update to 'failed' carrying the
\* error message, in this order, followed by one SNS publish when a topic is
\* configured and by none when no topic is configured.
C22_FailureHandlingStepIndependent ==
    /\ handler_pc # "failure_raised"
    /\ handler_pc = "failure_done" =>
          LET a == FailureArgs
              steps == SubSeq(calls, 2, Len(calls))
          IN  /\ Len(steps) = (IF env.sns_topic = "" THEN 3 ELSE 4)
              /\ steps[1].op = "copy_object"
              /\ steps[1].key = Path("failed", a.document_id, FilenameOf(a.key))
              /\ steps[2].op = "put_object"
              /\ steps[2].key = Path("failed", a.document_id, "error.json")
              /\ steps[3].op = "update_document_status"
              /\ steps[3].status = "failed"
              /\ steps[3].document_id = a.document_id
              /\ steps[3].error = a.error
              /\ env.sns_topic # "" => steps[4].op = "publish"
              /\ env.sns_topic = "" => CallsTo("publish") = <<>>

\* The function returned although the copy and the publish both failed.
C22_Witness ==
    /\ handler_pc = "failure_done"
    /\ env.sns_topic # ""
    /\ {"copy_object", "publish"} \subseteq env.failing
    /\ \E j \in 1..Len(calls) : calls[j].op = "copy_object" /\ calls[j].raised
    /\ \E j \in 1..Len(calls) : calls[j].op = "publish" /\ calls[j].raised

(***************************************************************************)
(* Two chunk_text calls in a row, the second with the same arguments but    *)
(* for an overlap that is at least as large and still below chunk_size.     *)
(***************************************************************************)
\* The caller keeps the returned list and calls chunk_text again with another
\* overlap, as test_chunk_with_different_overlap_sizes does.
ChunkTextCallMoreOverlap ==
    /\ pc = "done"
    /\ call_no = 1
    /\ call_no' = 2
    /\ first_result' = result
    /\ \E o \in overlap..(chunk_size - 1) : overlap' = o
    /\ pc' = "call"
    /\ UNCHANGED <<pages_data, text, document_id, metadata, chunk_size,
                   page_map, tokens, total_tokens, chunks, chunk_index, start_pos, result,
                   error, tokenizer_fault, encode_calls, decode_calls, lookup_vars,
                   handler_vars, pdf_vars, role_vars>>

OverlapNext ==
    \/ Next
    \/ ChunkTextCallMoreOverlap

OverlapSpec == Init /\ [][OverlapNext]_vars

\* C23 (more overlap never yields fewer chunks): when chunk_text has returned
\* for an overlap o1 >= 0 and then, with the same text and chunk size, for an
\* overlap o2 with o1 <= o2 < chunk_size, the second list has at least as many
\* chunks as the first.
C23_MoreOverlapNotFewerChunks ==
    (call_no = 2 /\ Returned) => Len(result) >= Len(first_result)

\* The second call, with a larger overlap, returned more chunks than the first.
C23_Witness ==
    /\ call_no = 2 /\ Returned
    /\ Len(first_result) >= 2
    /\ Len(result) > Len(first_result)

(***************************************************************************)
(* extract_text_from_pdf: one call on an opened PDF.  A text is the         *)
(* sequence of its pieces, white space being pieces of their own.           *)
(***************************************************************************)
MaxPdfPages == 3

WhiteSpace == {" ", "\n"}

\* str.lstrip, str.rstrip and str.strip
RECURSIVE lstrip(_)
lstrip(t) == IF t # <<>> /\ Head(t) \in WhiteSpace THEN lstrip(Tail(t)) ELSE t

RECURSIVE rstrip(_)
rstrip(t) ==
    IF t # <<>> /\ t[Len(t)] \in WhiteSpace THEN rstrip(SubSeq(t, 1, Len(t) - 1)) ELSE t

strip(t) == rstrip(lstrip(t))

\* sep.join(parts), the parts being texts
RECURSIVE join(_, _)
join(sep, parts) ==
    IF parts = <<>> THEN <<>>
    ELSE IF Len(parts) = 1 THEN parts[1]
    ELSE parts[1] \o sep \o join(sep, Tail(parts))

\* Lines 286-287: the cells of a row, stripped (None and '' give ''), joined by ' | '.
FormatRow(row) == join(<<" ", "|", " ">>, [c \in 1..Len(row) |-> strip(row[c])])

\* Lines 281-292: the non-empty tables, each as "[Table i]" and its rows that
\* are not blank, one per line.
RECURSIVE format_tables_from(_, _)
format_tables_from(tables, table_idx) ==
    IF table_idx > Len(tables) THEN <<>>
    ELSE LET table == tables[table_idx]
             rows == SelectSeq([r \in 1..Len(table) |-> FormatRow(table[r])],
                               LAMBDA line : strip(line) # <<>>)
             rest == format_tables_from(tables, table_idx + 1)
         IN  IF table = <<>> THEN rest
             ELSE <<join(<<"\n">>, <<<<"[Table " \o ToString(table_idx) \o "]">>>> \o rows)>> \o rest

\* Lines 270-294
format_tables(tables) == join(<<"\n", "\n">>, format_tables_from(tables, 1))

\* Lines 238-253: the entry of a page whose extraction succeeded.
PageEntry(page_num, page) ==
    LET table_text == format_tables(page.tables)
        full == IF page.tables # <<>> /\ table_text # <<>>
                THEN page.text \o <<"\n", "\n">> \o table_text
                ELSE page.text
    IN  [pageNumber |-> page_num, text |-> strip(full),
         hasTable |-> Len(page.tables) > 0, tableCount |-> Len(page.tables)]

\* Mutant: a page whose extraction raises is left out of the list.
FailedPageEntries_Dropped(page_num, err) == <<>>

\* Lines 257-264: the entry of a page whose extraction raised.
FailedPageEntries(page_num, err) ==
    <<[pageNumber |-> page_num, text |-> <<>>, error |-> err]>>

\* Lines 234-264: one iteration of the for loop.
PdfPage ==
    /\ pdf_pc = "loop"
    /\ pdf_page_num < Len(pdf_pages)
    /\ LET page_num == pdf_page_num + 1
           page == pdf_pages[page_num]
       IN  /\ pdf_page_num' = page_num
           /\ pdf_pages_data' =
                 pdf_pages_data \o
                 (IF page.raises # NoError
                  THEN FailedPageEntries(page_num, page.raises)
                  ELSE <<PageEntry(page_num, page)>>)
    /\ UNCHANGED <<pdf_pc, pdf_pages>>
    /\ UNCHANGED pdf_frame

\* Line 266: return pages_data.
PdfReturn ==
    /\ pdf_pc = "loop"
    /\ pdf_page_num = Len(pdf_pages)
    /\ pdf_pc' = "done"
    /\ UNCHANGED <<pdf_pages, pdf_page_num, pdf_pages_data>>
    /\ UNCHANGED pdf_frame

\* The pages of a PDF: the text page.extract_text returns ('' for None), the
\* tables page.extract_tables returns, and the error one of the two raises.
PdfPageSet ==
    { [text |-> <<"a">>, tables |-> <<>>, raises |-> NoError],
      [text |-> <<>>, tables |-> <<>>, raises |-> NoError],
      [text |-> <<" ", "a", "b", "\n">>, tables |-> << << <<<<"x">>, <<>>, <<" ", "y">>>> >> >>,
       raises |-> NoError],
      [text |-> <<>>, tables |-> << <<>> >>, raises |-> NoError],
      [text |-> <<>>, tables |-> <<>>, raises |-> "extract_text failed"],
      [text |-> <<"a">>, tables |-> <<>>, raises |-> "extract_tables failed"] }

PdfInit ==
    /\ ChunkIdle
    /\ LookupIdle
    /\ RoleIdle
    /\ handler_pc = "idle"
    /\ event_records = <<>>
    /\ env = [sns_topic |-> "", embedding_lambda |-> "", failing |-> {}]
    /\ record_index = 0
    /\ processed_count = 0
    /\ failed_count = 0
    /\ calls = <<>>
    /\ response = [statusCode |-> 0, body |-> ""]
    /\ pdf_pc = "loop"
    /\ pdf_pages \in UNION {[1..n -> PdfPageSet] : n \in 0..MaxPdfPages}
    /\ pdf_page_num = 0
    /\ pdf_pages_data = <<>>

PdfNext ==
    \/ PdfPage
    \/ PdfReturn

PdfSpec == PdfInit /\ [][PdfNext]_vars

\* C24 (page numbering survives page failures): the list has one entry per page
\* visited, entry i being the one of page i with pageNumber i; the entry of a
\* page whose extraction raised has empty text and an 'error' field, the entry
\* of any other page has none; no page makes the function raise, and when it
\* returns the list has one entry for every page of the PDF.
C24_PageNumberingSurvivesFailures ==
    /\ pdf_pc \in {"loop", "done"}
    /\ Len(pdf_pages_data) = pdf_page_num
    /\ pdf_page_num <= Len(pdf_pages)
    /\ \A i \in 1..Len(pdf_pages_data) :
          /\ pdf_pages_data[i].pageNumber = i
          /\ IF pdf_pages[i].raises # NoError
             THEN /\ pdf_pages_data[i].text = <<>>
                  /\ "error" \in DOMAIN pdf_pages_data[i]
                  /\ pdf_pages_data[i].error = pdf_pages[i].raises
             ELSE /\ "error" \notin DOMAIN pdf_pages_data[i]
                  /\ pdf_pages_data[i].tableCount = Len(pdf_pages[i].tables)
    /\ pdf_pc = "done" => Len(pdf_pages_data) = Len(pdf_pages)

\* The function returned for a PDF whose second page raised and whose third
\* page has text.
C24_Witness ==
    /\ pdf_pc = "done"
    /\ Len(pdf_pages) = 3
    /\ pdf_pages[2].raises # NoError
    /\ pdf_pages[3].raises = NoError
    /\ pdf_pages_data[3].text # <<>>

(***************************************************************************)
(* handler on an event of one record, with AWS calls of extract_text that   *)
(* fail.                                                                    *)
(***************************************************************************)
\* The AWS calls of extract_text that can fail (a missing object makes
\* get_object fail).
ProcessingCalls == {"text.json", "pages.json", "chunks.json", "invoke"}

HandlerFaultInit ==
    /\ ChunkIdle
    /\ LookupIdle
    /\ PdfIdle
    /\ RoleIdle
    /\ handler_pc = "loop"
    /\ event_records \in [1..1 -> Records]
    /\ env \in {[sns_topic |-> t, embedding_lambda |-> f, failing |-> x] :
                   t \in {"", "arn:aws:sns:failed-processing"},
                   f \in {"", "embedding-generator"},
                   x \in SUBSET ProcessingCalls}
    /\ record_index = 0
    /\ processed_count = 0
    /\ failed_count = 0
    /\ calls = <<>>
    /\ response = [statusCode |-> 0, body |-> ""]

HandlerFaultSpec == HandlerFaultInit /\ [][HandlerNext]_vars

\* The embedding generator was invoked for record i and the invocation failed.
InvokeFailed(i) ==
    \E j \in 1..Len(calls) : calls[j].rec = i /\ calls[j].op = "invoke" /\ calls[j].raised

\* chunks.json of record i was stored and no embedding generator is configured.
InvokeNotConfigured(i) ==
    /\ env.embedding_lambda = ""
    /\ \E j \in 1..Len(calls) :
          /\ calls[j].rec = i /\ calls[j].op = "put_object" /\ ~calls[j].raised
          /\ calls[j].key = Path("processed", calls[j].document_id, "chunks.json")

\* C25 (embedding invocation is non-fatal): for a record whose embedding
\* invocation failed, or whose chunks were stored while no embedding generator
\* is configured (and then nothing is invoked), extract_text returned, the last
\* status written is 'completed', the record is counted as processed and not as
\* failed, and handle_processing_failure was not called for it.
C25_EmbeddingInvocationNonFatal ==
    \A i \in 1..record_index :
        (InvokeFailed(i) \/ InvokeNotConfigured(i)) =>
            /\ ExtractTextReturned(i)
            /\ StatusCallsOf(i)[Len(StatusCallsOf(i))].status = "completed"
            /\ FailureCallsOf(i) = <<>>
            /\ processed_count = 1 /\ failed_count = 0
            /\ InvokeNotConfigured(i) =>
                  SelectSeq(CallsOf(i), LAMBDA c : c.op = "invoke") = <<>>

\* The handler returned for a record whose embedding invocation failed.
C25_Witness ==
    /\ HandlerReturned
    /\ InvokeFailed(1)
    /\ response.body = JsonBody(1, 0)

(***************************************************************************)
(* Further properties of the windows of chunk_text.                         *)
(***************************************************************************)
\* C26 (every window makes progress): for chunk_size >= 1 and
\* 0 <= overlap < chunk_size, every chunk built has
\* tokenCount = endToken - startToken >= 1, and every chunk after the first
\* starts later and ends later than the chunk before it and has more than
\* overlap tokens, so it has a token that no earlier chunk has.
C26_EveryWindowMakesProgress ==
    ValidConfiguration =>
        \A i \in 1..Len(chunks) :
            /\ chunks[i].tokenCount = chunks[i].endToken - chunks[i].startToken
            /\ chunks[i].tokenCount >= 1
            /\ i > 1 =>
                  /\ chunks[i].startToken > chunks[i - 1].startToken
                  /\ chunks[i].endToken > chunks[i - 1].endToken
                  /\ chunks[i].tokenCount > overlap

\* A call with a non-zero overlap returned two or more chunks, the last one
\* shorter than chunk_size and with only one token more than the overlap.
C26_Witness ==
    /\ Returned /\ ValidConfiguration
    /\ overlap >= 1
    /\ Len(result) >= 2
    /\ result[Len(result)].tokenCount < chunk_size
    /\ result[Len(result)].tokenCount = overlap + 1

\* C27 (status lifecycle per record): the status updates made for a record
\* start with 'processing', which is followed by at most one more update, and
\* that one is 'completed' or 'failed'; so 'completed' and 'failed' are never
\* both written for a record and neither is written before 'processing'.
C27_StatusLifecycle ==
    \A i \in 1..record_index :
        LET st == StatusCallsOf(i)
        IN  st # <<>> =>
              /\ st[1].status = "processing"
              /\ Len(st) <= 2
              /\ Len(st) = 2 => st[2].status \in {"completed", "failed"}

\* A record whose chunks.json could not be stored: 'processing', then 'failed'.
C27_Witness ==
    /\ record_index = 1
    /\ Len(StatusCallsOf(1)) = 2
    /\ StatusCallsOf(1)[2].status = "failed"
    /\ \E j \in 1..Len(calls) :
          /\ calls[j].op = "put_object" /\ calls[j].raised
          /\ calls[j].key = Path("processed", calls[j].document_id, "chunks.json")

\* The calls for record i before its j-th call.
Before(i, j) == SubSeq(CallsOf(i), 1, j - 1)

\* name was stored under processed/{documentId}/ by one of the calls cs.
Stored(cs, name) ==
    \E k \in 1..Len(cs) :
        /\ cs[k].op = "put_object" /\ ~cs[k].raised
        /\ cs[k].key = Path("processed", cs[k].document_id, name)

\* C28 (artifacts precede completion): for every record, chunk_text is called
\* only after text.json and pages.json were stored; the embedding generator is
\* invoked at most once, only after chunks.json was stored, and with the key of
\* that chunks.json; and 'completed' is written only after text.json,
\* pages.json and chunks.json were all stored successfully.
C28_ArtifactsPrecedeCompletion ==
    \A i \in 1..record_index :
        LET cs == CallsOf(i)
        IN  /\ Len(SelectSeq(cs, LAMBDA c : c.op = "invoke")) <= 1
            /\ \A j \in 1..Len(cs) :
                  /\ cs[j].op = "chunk_text" =>
                        Stored(Before(i, j), "text.json") /\ Stored(Before(i, j), "pages.json")
                  /\ cs[j].op = "invoke" =>
                        /\ Stored(Before(i, j), "chunks.json")
                        /\ cs[j].key = Path("processed", cs[j].document_id, "chunks.json")
                  /\ (cs[j].op = "update_document_status" /\ cs[j].status = "completed") =>
                        /\ Stored(Before(i, j), "text.json")
                        /\ Stored(Before(i, j), "pages.json")
                        /\ Stored(Before(i, j), "chunks.json")

\* A record for which the embedding generator was invoked and 'completed'
\* written.
C28_Witness ==
    /\ record_index = 1
    /\ \E j \in 1..Len(calls) : calls[j].op = "invoke" /\ ~calls[j].raised
    /\ \E j \in 1..Len(calls) : calls[j].status = "completed"

(***************************************************************************)
(* build_page_map on the pages of a document, then one page lookup in the   *)
(* map it returned.                                                         *)
(***************************************************************************)
MaxMapPages == 3
MaxMapPageLen == 2

\* Character positions looked up: every position of the joined text and one
\* past its end.
MaxMapOffset == MaxMapPages * (MaxMapPageLen + SeparatorLen)

MapInit ==
    /\ HandlerIdle
    /\ RoleIdle
    /\ pc = "idle"
    /\ error = NoError /\ tokenizer_fault = NoFault
    /\ encode_calls = 0 /\ decode_calls = 0
    /\ call_no = 1 /\ first_result = <<>>
    /\ pages_data \in {PagesOf(lens) :
                          lens \in UNION {[1..n -> 0..MaxMapPageLen] : n \in 0..MaxMapPages}}
    /\ text = JoinPages(pages_data)
    /\ document_id = "" /\ metadata = <<>>
    /\ chunk_size = DefaultChunkSize /\ overlap = DefaultOverlap
    /\ page_map = <<>> /\ tokens = <<>> /\ total_tokens = 0
    /\ chunks = <<>> /\ chunk_index = 0 /\ start_pos = 0
    /\ result = <<>>
    /\ lookup_pc = "build"
    /\ lookup_map = <<>>
    /\ lookup_pos \in 0..MaxMapOffset
    /\ lookup_result = 0

\* Lines 403-435: the whole function.
BuildPageMapCall ==
    /\ lookup_pc = "build"
    /\ lookup_map' = build_page_map(pages_data)
    /\ lookup_pc' = "call"
    /\ UNCHANGED <<lookup_pos, lookup_result>>
    /\ UNCHANGED lookup_frame

MapNext ==
    \/ BuildPageMapCall
    \/ LookupCall

MapSpec == MapInit /\ [][MapNext]_vars

\* C29 (page attribution is monotone): in the page map build_page_map returned
\* for pages numbered 1, 2, 3, ... the page number looked up never decreases as
\* the offset grows: for offsets a <= b the page of a is at most the page of b,
\* and a lookup made in it returns at least the page of every smaller offset.
C29_PageAttributionMonotone ==
    /\ lookup_pc \in {"call", "done"} =>
          \A a \in 0..MaxMapOffset : \A b \in a..MaxMapOffset :
              get_page_number_for_position(a, lookup_map)
                  <= get_page_number_for_position(b, lookup_map)
    /\ lookup_pc = "done" =>
          \A a \in 0..lookup_pos :
              get_page_number_for_position(a, lookup_map) <= lookup_result

(***************************************************************************)
(* configure_role_mapping: GET the all_access mapping, add the Lambda role  *)
(* to its backend roles, PUT the result; then the script is run again.      *)
(***************************************************************************)

\* The argument lambda_role_arn and the other entries a mapping can hold.
lambda_role_arn == "arn:lambda"
OtherBackendRoles == {"arn:admin"}
Hosts == {"host"}
Users == {"admin"}

\* The lists without repetition over a set of names.
ListsOf(S) ==
    UNION {{l \in [1..n -> S] : \A i, j \in 1..n : l[i] = l[j] => i = j} :
              n \in 0..Cardinality(S)}

\* The all_access mappings the server can hold before the script runs.
ServerMappings ==
    {[backend_roles |-> b, hosts |-> h, users |-> u] :
        b \in ListsOf(OtherBackendRoles \cup {lambda_role_arn}),
        h \in ListsOf(Hosts), u \in ListsOf(Users)}

\* dict.get(key, []) of a mapping held as a set of at most one record; the
\* empty set is the empty dict.
MappingGet(mapping, key) ==
    IF mapping = {} THEN <<>> ELSE (CHOOSE m \in mapping : TRUE)[key]

\* The elements of a list, and how often a value occurs in it.
ListElements(l) == {l[i] : i \in 1..Len(l)}
Occurrences(x, l) == Cardinality({i \in 1..Len(l) : l[i] = x})

\* Lines 44-46: the Lambda role is appended when it is not in the list.
BackendRolesWith(backend_roles, arn) ==
    IF arn \in ListElements(backend_roles) THEN backend_roles
    ELSE Append(backend_roles, arn)

\* Lines 49-53: the payload of the PUT.
Payload(current_mapping, arn) ==
    [backend_roles |-> BackendRolesWith(MappingGet(current_mapping, "backend_roles"), arn),
     hosts |-> MappingGet(current_mapping, "hosts"),
     users |-> MappingGet(current_mapping, "users")]

RoleInit ==
    /\ ChunkIdle
    /\ LookupIdle
    /\ HandlerIdle
    /\ role_pc = "get"
    /\ role_server \in {{m} : m \in ServerMappings} \cup {{}}
    /\ role_before = role_server
    /\ role_current = {}
    /\ role_payload = {}
    /\ role_return = "none"
    /\ role_run = 1
    /\ role_first = {}

\* Lines 29-42: the GET. It answers with the mapping the server holds, or the
\* request fails (no mapping on the server, a refused connection, a timeout, an
\* HTTP error) and current_mapping is the empty dict.
RoleMappingGet ==
    /\ role_pc = "get"
    /\ \E outcome \in {"ok", "RequestException"} :
          /\ outcome = "ok" => role_server # {}
          /\ role_current' = IF outcome = "ok" THEN role_server ELSE {}
    /\ role_pc' = "put"
    /\ UNCHANGED <<role_server, role_before, role_payload, role_return, role_run,
                   role_first>>
    /\ UNCHANGED role_frame

\* Lines 44-71: the payload is built and PUT. The server replaces its mapping by
\* the payload and the function returns True, or the request fails and it
\* returns False.
RoleMappingPut ==
    /\ role_pc = "put"
    /\ role_payload' = {Payload(role_current, lambda_role_arn)}
    /\ \E outcome \in {"ok", "RequestException"} :
          /\ role_server' = IF outcome = "ok" THEN role_payload' ELSE role_server
          /\ role_return' = IF outcome = "ok" THEN "True" ELSE "False"
    /\ role_pc' = "done"
    /\ UNCHANGED <<role_before, role_current, role_run, role_first>>
    /\ UNCHANGED role_frame

\* The script is run a second time against the server as the first run left it.
RoleMappingAgain ==
    /\ role_pc = "done"
    /\ role_run = 1
    /\ role_run' = 2
    /\ role_first' = {[payload |-> role_payload, return |-> role_return]}
    /\ role_before' = role_server
    /\ role_current' = {}
    /\ role_payload' = {}
    /\ role_return' = "none"
    /\ role_pc' = "get"
    /\ UNCHANGED role_server
    /\ UNCHANGED role_frame

RoleNext ==
    \/ RoleMappingGet
    \/ RoleMappingPut
    \/ RoleMappingAgain

RoleSpec == RoleInit /\ [][RoleNext]_vars

\* C30 (role mapping is additive): whenever configure_role_mapping has returned
\* True, the mapping it wrote holds lambda_role_arn exactly once among its
\* backend roles and every backend role, host and user the server held before
\* the call; and a second run that returns True after a first that returned
\* True wrote the same mapping as the first.
C30_RoleMappingAdditive ==
    /\ (role_pc = "done" /\ role_return = "True") =>
          \A written \in role_payload :
              /\ Occurrences(lambda_role_arn, written.backend_roles) = 1
              /\ \A before \in role_before :
                    /\ ListElements(before.backend_roles)
                           \subseteq ListElements(written.backend_roles)
                    /\ ListElements(before.hosts) \subseteq ListElements(written.hosts)
                    /\ ListElements(before.users) \subseteq ListElements(written.users)
    /\ (role_pc = "done" /\ role_return = "True" /\ role_run = 2) =>
          \A first \in role_first :
              first.return = "True" => role_payload = first.payload

====
